---- MODULE Spec2Model ----
(***************************************************************************)
(* YoloProcessor (src/onnx/src/yolo_processor.cpp): the decoder of the     *)
(* 125x13x13 YOLO output tensor (GetRecognizedObjects, GetOffset, Sigmoid, *)
(* Softmax) and the publishing of its detections (ProcessOutput).          *)
(*                                                                         *)
(* `float' values are IEEE-754 binary32 numbers held as their bit patterns *)
(* (sign bit clear, so the order of the patterns is the order of the       *)
(* values); the arithmetic below is round-to-nearest-even on those         *)
(* patterns.  The tensor holds small integer logits, which binary32        *)
(* represents exactly.                                                     *)
(***************************************************************************)
EXTENDS Integers, Sequences, FiniteSets

\* ------------------------------------------------------------------------
\* binary32 arithmetic (the `float' operators of the source)
\* ------------------------------------------------------------------------

\* implicit leading bit of a normal significand: 2^23
Hidden == 2^23
\* +infinity, 0x7F800000
Inf == 255 * Hidden
\* the quiet NaN, 0x7FC00000
NaN == Inf + Hidden \div 2
\* 1.0f, 0x3F800000
One == 127 * Hidden

IsNaN(p) == p > Inf

\* significand and exponent of a finite pattern: value = Mant * 2^Expo
Mant(p) == IF p < Hidden THEN p ELSE Hidden + (p % Hidden)
Expo(p) == IF p < Hidden THEN -149 ELSE (p \div Hidden) - 150

\* number of significant bits of n >= 0
RECURSIVE BitLen(_)
BitLen(n) == IF n = 0 THEN 0
             ELSE IF n >= 65536 THEN 16 + BitLen(n \div 65536)
             ELSE IF n >= 256 THEN 8 + BitLen(n \div 256)
             ELSE IF n >= 16 THEN 4 + BitLen(n \div 16)
             ELSE 1 + BitLen(n \div 2)

\* the pattern of m * 2^ex, m a significand that fits (an m of 2^24 carries
\* into the exponent field); +infinity on overflow
Pack(ex, m) ==
    IF ex > 104 THEN Inf
    ELSE IF (ex + 149) * Hidden + m >= Inf THEN Inf
    ELSE (ex + 149) * Hidden + m

\* q rounded to nearest even, r of half + half being the remainder dropped
RoundUp(q, r, half, sticky) ==
    IF r > half \/ (r = half /\ (sticky \/ q % 2 = 1)) THEN q + 1 ELSE q

\* sig * 2^e with the s low bits of sig rounded away (s < 0: shifted in)
RoundAt(sig, e, sticky, s) ==
    IF s > 30 THEN 0
    ELSE IF s <= 0 THEN Pack(e + s, sig * 2^(-s))
    ELSE Pack(e + s, RoundUp(sig \div 2^s, sig % 2^s, 2^(s - 1), sticky))

\* n is the number of bits sig has beyond 24; a subnormal result keeps fewer
RoundShift(sig, e, sticky, n) ==
    RoundAt(sig, e, sticky, IF e + n < -149 THEN -149 - e ELSE n)

\* the binary32 nearest to sig * 2^e (ties to even); sticky says that bits
\* below sig were dropped (sig then has at least 26 significant bits)
RoundPack(sig, e, sticky) ==
    IF sig = 0 THEN 0 ELSE RoundShift(sig, e, sticky, BitLen(sig) - 24)

\* significand and exponent of a finite non-zero pattern with the
\* significand shifted up to 24 bits
NormMant(p) == Mant(p) * 2^(24 - BitLen(Mant(p)))
NormExpo(p) == Expo(p) - (24 - BitLen(Mant(p)))

\* big + small with the significand B of small carrying three guard bits
\* and d the difference of the exponents
FAddAligned(big, B, d) ==
    RoundPack(Mant(big) * 8 + (IF d > 27 THEN 0 ELSE B \div 2^d),
              Expo(big) - 3,
              IF d > 27 THEN B # 0 ELSE B % 2^d # 0)

FAddOrdered(big, small) ==
    FAddAligned(big, Mant(small) * 8, Expo(big) - Expo(small))

\* a + b for non-negative a, b
FAdd(a, b) ==
    IF IsNaN(a) \/ IsNaN(b) THEN NaN
    ELSE IF a = Inf \/ b = Inf THEN Inf
    ELSE IF a >= b THEN FAddOrdered(a, b)
    ELSE FAddOrdered(b, a)

\* one step of the long division by m: `bits' more quotient bits
DivStep(qr, m, bits) ==
    <<qr[1] * 2^bits + (qr[2] * 2^bits) \div m, (qr[2] * 2^bits) % m>>

\* num / mb * 2^e with mb <= num < 2 * mb: a quotient of 26 bits and
\* whether a remainder is left
FDivLong(num, mb, e) ==
    LET q == DivStep(DivStep(DivStep(DivStep(<<num \div mb, num % mb>>,
                                             mb, 7), mb, 7), mb, 7), mb, 4)
    IN RoundPack(q[1], e - 25, q[2] # 0)

\* ma / mb * 2^e for significands of 24 bits
FDivNorm(ma, mb, e) ==
    IF ma < mb THEN FDivLong(ma * 2, mb, e - 1) ELSE FDivLong(ma, mb, e)

\* a / b for non-negative a, b
FDiv(a, b) ==
    IF IsNaN(a) \/ IsNaN(b) THEN NaN
    ELSE IF a = Inf THEN (IF b = Inf THEN NaN ELSE Inf)
    ELSE IF b = Inf THEN 0
    ELSE IF b = 0 THEN (IF a = 0 THEN NaN ELSE Inf)
    ELSE IF a = 0 THEN 0
    ELSE FDivNorm(NormMant(a), NormMant(b), NormExpo(a) - NormExpo(b))

\* (high * 2^24 + low) * 2^e rounded, t being the shift that brings high
\* to 27 bits (at most 24)
FMulRound(high, low, e, t) ==
    RoundPack(high * 2^t + low \div 2^(24 - t), e + 24 - t,
              low % 2^(24 - t) # 0)

FMulNorm(high, low, e) ==
    FMulRound(high, low, e,
              IF 27 - BitLen(high) > 24 THEN 24 ELSE 27 - BitLen(high))

\* the 48-bit product from the partial products of 12-bit limbs
FMulSum(hh, hl, ll, e) ==
    LET mid == (hl % 4096) * 4096 + ll
    IN FMulNorm(hh + hl \div 4096 + mid \div 2^24, mid % 2^24, e)

FMulLimbs(a1, a0, b1, b0, e) ==
    FMulSum(a1 * b1, a1 * b0 + a0 * b1, a0 * b0, e)

\* a * b for non-negative a, b
FMul(a, b) ==
    IF IsNaN(a) \/ IsNaN(b) THEN NaN
    ELSE IF a = Inf \/ b = Inf THEN (IF a = 0 \/ b = 0 THEN NaN ELSE Inf)
    ELSE FMulLimbs(Mant(a) \div 4096, Mant(a) % 4096,
                   Mant(b) \div 4096, Mant(b) % 4096, Expo(a) + Expo(b))

\* a < b as the source's operator< decides it: false when either is NaN
\* (a NaN pattern is above every other pattern, so a < b with b not NaN
\* leaves a not NaN)
FLess(a, b) == a < b /\ ~IsNaN(b)

\* std::exp on float for the integer arguments -103..88: the binary32 results
\* of libm's expf, ExpTab[v + 104] = expf(v)
ExpTab == <<
    1, 4, 10, 27, 72, 196,
    533, 1449, 3940, 10710, 29113, 79137,
    215115, 584744, 1589500, 4320708, 11744903, 24351586,
    36013792, 48298349, 60351179, 72338210, 84751831, 96464058,
    109210919, 120669328, 133230228, 144947952, 157190223, 169294331,
    181242305, 193703288, 205379441, 218170047, 229595136, 242110750,
    253883390, 266083833, 278238663, 290148004, 302655836, 314296305,
    327104651, 338522313, 350993132, 362820092, 374979162, 387184163,
    399055289, 411609461, 423214635, 435975009, 447450844, 459877355,
    471758045, 483876189, 496130818, 507964145, 520564154, 532134415,
    544847338, 556380713, 568763397, 580697234, 592774898, 605078615,
    616874553, 629519901, 641055629, 653721615, 665311908, 677651240,
    689637647, 701675270, 714027542, 725786497, 738476693, 749978261,
    762597821, 774244412, 786540863, 798579270, 810577287, 822977587,
    834699960, 847434516, 858902297, 871475934, 883178213, 895432248,
    907522090, 919480930, 931928737, 943614926, 956393361, 967827720,
    980355933, 992113296, 1004325375, 1016466094, 1028386182, 1040880981,
    1052531378, 1065353216, 1076754516, 1089237798, 1101049646, 1113220225,
    1125411269, 1137293027, 1149834307, 1161449300, 1174223020, 1185682670,
    1198121508, 1209987251, 1222116781, 1234357602, 1246201445, 1258788703,
    1270368676, 1283094800, 1294612168, 1307007044, 1318926096, 1331015022,
    1343305082, 1355111422, 1367744157, 1379289491, 1391968536, 1403542994,
    1415894386, 1427866168, 1439914931, 1452253694, 1464022938, 1476700657,
    1488211729, 1500844205, 1512475134, 1524783514, 1536807455, 1548816490,
    1561203428, 1572935979, 1585658194, 1597135374, 1609721787, 1621408574,
    1633674409, 1645749941, 1657719681, 1670154271, 1681850526, 1694616755,
    1706060411, 1718601261, 1730343300, 1742567051, 1754693616, 1766624485,
    1779106211, 1790766565, 1803576328, 1814986826, 1827482607, 1839279297,
    1851461422, 1863638465, 1875530887, 1888059236, 1899684078, 1912471185,
    1923914602, 1936365804, 1948216553, 1960357503, 1972584476, 1984438868,
    1997013334, 2008603050, 2021342415, 2032843726, 2045250833, 2057155053,
    2069255275, 2081531637, 2093348411, 2105968493, 2117523465, 2130215607 >>

\* std::exp(float): 0 below the table (underflow), +infinity above (overflow)
ExpF(v) == IF v > 88 THEN Inf
           ELSE IF v < -103 THEN 0
           ELSE ExpTab[v + 104]

\* ------------------------------------------------------------------------
\* binary64 accumulation (std::accumulate with the double initial value 0.0)
\* a non-negative finite double is <<hi, lo, e>>, of value
\* (hi * 2^27 + lo) * 2^e with 2^25 <= hi < 2^26 and lo < 2^27, or DZero
\* ------------------------------------------------------------------------
DZero == <<0, 0, 0>>

\* (double)x of a finite non-negative float x: exact
DFromF(x) ==
    IF x = 0 THEN DZero ELSE <<NormMant(x) * 4, 0, NormExpo(x) - 29>>

\* the double of significand hi * 2^27 + lo, hi possibly carried to 2^26
DPack(hi, lo, e) ==
    IF hi = 2^26 THEN <<2^25, 0, e + 1>> ELSE <<hi, lo, e>>

\* (H3 * 2^28 + L3) * 2^(e - 3) rounded to 53 bits, to nearest even
DRound(H3, L3, lost, e) ==
    LET up == L3 % 8 > 4 \/ (L3 % 8 = 4 /\ (lost \/ (L3 \div 8) % 2 = 1))
        lo == (H3 % 4) * 2^25 + L3 \div 8 + (IF up THEN 1 ELSE 0)
    IN DPack(H3 \div 4 + lo \div 2^27, lo % 2^27, e)

\* a sum of 57 bits (c = 1) is shifted down by one bit
DNorm(sumH, sumL, lost, e, c) ==
    DRound(sumH \div 2^c, (sumL % 2^28) \div 2^c + (sumH % 2^c) * 2^27,
           lost \/ (c = 1 /\ sumL % 2 = 1), e + c)

DCarry(sumH, sumL, lost, e) ==
    DNorm(sumH, sumL, lost, e, IF sumH >= 2^28 THEN 1 ELSE 0)

\* the sum of the two aligned significands, each in two 28-bit limbs
DSum(BH, BL, H, L, lost, e) ==
    DCarry(BH + H + (BL + L) \div 2^28, BL + L, lost, e)

\* the smaller significand <<SH, SL>> shifted down by d bits; lost says
\* that bits were shifted out
DAlign(BH, BL, SH, SL, d, e) ==
    DSum(BH, BL,
         IF d = 0 THEN SH ELSE IF d < 28 THEN SH \div 2^d ELSE 0,
         IF d = 0 THEN SL
         ELSE IF d < 28 THEN SL \div 2^d + (SH % 2^d) * 2^(28 - d)
         ELSE IF d < 56 THEN SH \div 2^(d - 28)
         ELSE 0,
         IF d = 0 THEN FALSE
         ELSE IF d < 28 THEN SL % 2^d # 0
         ELSE IF d < 56 THEN SH % 2^(d - 28) # 0 \/ SL # 0
         ELSE TRUE,
         e)

\* big + small, the exponent of big not below that of small; the
\* significands get three guard bits
DAddOrdered(big, small) ==
    DAlign(big[1] * 4 + (big[2] * 8) \div 2^28, (big[2] * 8) % 2^28,
           small[1] * 4 + (small[2] * 8) \div 2^28, (small[2] * 8) % 2^28,
           big[3] - small[3], big[3])

\* p + q in binary64, round to nearest even
DAdd(p, q) ==
    IF p[1] = 0 THEN q
    ELSE IF q[1] = 0 THEN p
    ELSE IF p[3] >= q[3] THEN DAddOrdered(p, q)
    ELSE DAddOrdered(q, p)

\* (float)p of a double p
DToF(p) ==
    IF p[1] = 0 THEN 0
    ELSE RoundPack(p[1] * 2 + p[2] \div 2^26, p[3] + 26, p[2] % 2^26 # 0)

\* ------------------------------------------------------------------------
\* YoloProcessor::Sigmoid, YoloProcessor::Softmax
\* ------------------------------------------------------------------------

\* float k = (float)std::exp(value); return k / (1.0f + k);
Sigmoid(value) == LET k == ExpF(value) IN FDiv(k, FAdd(One, k))

\* the non-negative finite doubles
Double == Nat \X Nat \X Int

\* the loop of std::max_element written with `if (!(*first < *largest))',
\* which keeps the last of several largest elements
MaxElementLast(values) ==
    LET last == Len(values) + 1
        Loop[largest \in 1..Len(values), first \in 1..last] ==
            IF first = last THEN largest
            ELSE Loop[IF ~FLess(values[first], values[largest])
                      THEN first ELSE largest, first + 1]
    IN Loop[1, 2]

\* std::max_element(values.begin(), values.end()) of floats, as a position
\* from 1: the loop `if (*largest < *first) largest = first;'
MaxElement(values) ==
    LET last == Len(values) + 1
        Loop[largest \in 1..Len(values), first \in 1..last] ==
            IF first = last THEN largest
            ELSE Loop[IF FLess(values[largest], values[first])
                      THEN first ELSE largest, first + 1]
    IN Loop[1, 2]

\* *std::max_element(values.begin(), values.end()) of logits: the same
\* loop, the floats being integers compared as such
MaxLogit(values) ==
    LET last == Len(values) + 1
        Loop[largest \in 1..Len(values), first \in 1..last] ==
            IF first = last THEN values[largest]
            ELSE Loop[IF values[largest] < values[first]
                      THEN first ELSE largest, first + 1]
    IN Loop[1, 2]

\* std::accumulate(values.begin(), values.end(), 0.0): the loop
\* `init = init + *first;' in double
Accumulate(values) ==
    LET last == Len(values) + 1
        Loop[init \in Double, first \in 1..last] ==
            IF first = last THEN init
            ELSE Loop[DAdd(init, DFromF(values[first])), first + 1]
    IN Loop[DZero, 1]

\* the std::vector<float> holding the values of the sequence f
Vector(f) == SubSeq(f, 1, Len(f))

\* Softmax(values): exp(x - max_val) of each element, then each divided by
\* their sum; the result vector
Softmax(values) ==
    LET max_val == MaxLogit(values)
        exps    == Vector([i \in 1..Len(values) |-> ExpF(values[i] - max_val)])
        exptot  == DToF(Accumulate(exps))
    IN Vector([i \in 1..Len(values) |-> FDiv(exps[i], exptot)])

\* ------------------------------------------------------------------------
\* constants of namespace yolo
\* ------------------------------------------------------------------------
ROW_COUNT == 13
COL_COUNT == 13
CHANNEL_COUNT == 125
BOXES_PER_CELL == 5
BOX_INFO_FEATURE_COUNT == 5
CLASS_COUNT == 20

labels == << "aeroplane", "bicycle", "bird", "boat", "bottle",
             "bus", "car", "cat", "chair", "cow",
             "diningtable", "dog", "horse", "motorbike", "person",
             "pottedplant", "sheep", "sofa", "train", "tvmonitor" >>

kDefaultLabel == "person"

\* the length of the tensor the network produces: 125 x 13 x 13
TensorLength == CHANNEL_COUNT * ROW_COUNT * COL_COUNT

\* ------------------------------------------------------------------------
\* input tensors
\* ------------------------------------------------------------------------

\* number of pseudo-random tensors decoded
NumSeeds == 1

\* the logits a pseudo-random tensor is filled with: mostly strongly
\* negative, a few around zero, 20 (sigmoid rounds to 1.0f) and 90 (expf
\* overflows)
LogitPool == << -40, -40, -40, -40, -40, -40, -40, -40,
                -20, -2, 0, 0, 1, 2, 20, 90 >>

LogitValues == {LogitPool[k] : k \in 1..Len(LogitPool)}

\* a tensor is described by [hashed, v]: every element v, or the elements
\* of the pseudo-random tensor number v
ConstTensor(v) == [hashed |-> FALSE, v |-> v]
HashTensor(s) == [hashed |-> TRUE, v |-> s]

\* element i of tensor t
Element(t, i) ==
    IF t.hashed
    THEN LogitPool[(((((i + 1) * (7919 + 2 * t.v)) + 104729 * t.v) % 21139)
                    % Len(LogitPool)) + 1]
    ELSE t.v

VARIABLES
    modelOutputs,   \* the tensor handed to ProcessOutput (its description)
    size,           \* modelOutputs.size()
    _confidence,    \* the threshold, a float
    _label,         \* the label markers are published for
    _fake,          \* fake mode
    pc,             \* where ProcessOutput is
    cy, cx, b,      \* the loop counters of GetRecognizedObjects
    boxes,          \* std::vector<YoloBox> boxes
    it, count,      \* ProcessOutput's iterator (an index of boxes) and count
    published,      \* what publisher_ and image_pub_ have published, in order
    nReads,         \* history: how many elements of the tensor were indexed
    last,           \* history: the last iteration of the innermost loop
    trace,          \* whether seen is recorded
    seen,           \* history: every <<index, x, y, channel>> read so far
    call            \* the last direct call of GetOffset

vars == <<modelOutputs, size, _confidence, _label, _fake, pc, cy, cx, b,
          boxes, it, count, published, nReads, last, trace, seen, call>>

config == <<modelOutputs, size, _confidence, _label, _fake, trace>>

\* GetOffset with the stride of a row in the place of the stride of a
\* channel
GetOffsetRowStride(x, y, channel) ==
    (channel * COL_COUNT) + (y * COL_COUNT) + x

\* ------------------------------------------------------------------------
\* YoloProcessor::GetOffset
\* ------------------------------------------------------------------------
GetOffset(x, y, channel) ==
    (channel * (ROW_COUNT * COL_COUNT)) + (y * COL_COUNT) + x

\* ------------------------------------------------------------------------
\* YoloProcessor::GetRecognizedObjects: one iteration of the innermost loop
\* ------------------------------------------------------------------------

\* modelOutputs[i]; reading past the end of the vector is undefined
\* behaviour and yields the arbitrary value g
Rd(i, g) == IF i < size THEN Element(modelOutputs, i) ELSE g

\* int channel = (b * (CLASS_COUNT + BOX_INFO_FEATURE_COUNT));
Channel(box) == box * (CLASS_COUNT + BOX_INFO_FEATURE_COUNT)

\* float classOffset = channel + BOX_INFO_FEATURE_COUNT;
ClassOffset(box) == Channel(box) + BOX_INFO_FEATURE_COUNT

\* the GetOffset calls that read tx, ty, tw, th, tc
BoxCalls(x, y, box) ==
    {<<x, y, Channel(box) + k>> : k \in 0..(BOX_INFO_FEATURE_COUNT - 1)}

\* the GetOffset calls that fill classes[]
ClassCalls(x, y, box) ==
    {<<x, y, i + ClassOffset(box)>> : i \in 0..(CLASS_COUNT - 1)}

\* float confidence = Sigmoid(tc);
Confidence(x, y, box, g) ==
    Sigmoid(Rd(GetOffset(x, y, Channel(box) + 4), g))

\* classes[i] = modelOutputs[GetOffset(cx, cy, i + classOffset)];
Classes(x, y, box, g) ==
    Vector([i \in 1..CLASS_COUNT |->
               Rd(GetOffset(x, y, (i - 1) + ClassOffset(box)), g)])

\* float topScore = (*iter) * confidence; topClass, here from 1
TopAt(classes, iter, confidence) ==
    [topClass |-> iter, topScore |-> FMul(classes[iter], confidence)]

\* auto iter = std::max_element(classes.begin(), classes.end());
TopOf(classes, confidence) ==
    TopAt(classes, MaxElement(classes), confidence)

\* topClass and topScore of an anchor that passed the first check
Top(x, y, box, g) ==
    TopOf(Softmax(Classes(x, y, box, g)), Confidence(x, y, box, g))

\* whether every index in calls is inside the vector
InBounds(calls) == \A c \in calls : GetOffset(c[1], c[2], c[3]) < size

\* the values an iteration may read past the end
Garbage == IF InBounds(BoxCalls(cx, cy, b) \cup ClassCalls(cx, cy, b))
           THEN {0}
           ELSE LogitValues

\* the loops with `b < BOXES_PER_CELL - 1': the last anchor of every cell is
\* left out
AdvanceShort ==
    /\ b' = IF b + 1 < BOXES_PER_CELL - 1 THEN b + 1 ELSE 0
    /\ cx' = IF b + 1 < BOXES_PER_CELL - 1 THEN cx
             ELSE IF cx + 1 < COL_COUNT THEN cx + 1 ELSE 0
    /\ cy' = IF b + 1 < BOXES_PER_CELL - 1 \/ cx + 1 < COL_COUNT THEN cy
             ELSE cy + 1

\* b++, then cx++, then cy++
Advance ==
    /\ b' = IF b + 1 < BOXES_PER_CELL THEN b + 1 ELSE 0
    /\ cx' = IF b + 1 < BOXES_PER_CELL THEN cx
             ELSE IF cx + 1 < COL_COUNT THEN cx + 1 ELSE 0
    /\ cy' = IF b + 1 < BOXES_PER_CELL \/ cx + 1 < COL_COUNT THEN cy
             ELSE cy + 1

\* the history of an iteration that made the GetOffset calls `calls'
Record(outcome, calls) ==
    /\ last' = [cy |-> cy, cx |-> cx, b |-> b, outcome |-> outcome,
                calls |-> calls]
    /\ nReads' = nReads + Cardinality(calls)
    /\ seen' = IF trace
               THEN seen \cup {<<GetOffset(c[1], c[2], c[3]), c[1], c[2], c[3]>>
                               : c \in calls}
               ELSE seen

InLoop == pc = "decode" /\ cy < ROW_COUNT

\* if (confidence < threshold) continue;
SkipLowObjectness(g) ==
    /\ InLoop
    /\ FLess(Confidence(cx, cy, b, g), _confidence)
    /\ Advance
    /\ Record("lowObjectness", BoxCalls(cx, cy, b))
    /\ UNCHANGED <<config, pc, boxes, it, count, published, call>>

\* if (topScore < threshold) continue;
SkipLowScore(g) ==
    /\ InLoop
    /\ ~FLess(Confidence(cx, cy, b, g), _confidence)
    /\ FLess(Top(cx, cy, b, g).topScore, _confidence)
    /\ Advance
    /\ Record("lowScore", BoxCalls(cx, cy, b) \cup ClassCalls(cx, cy, b))
    /\ UNCHANGED <<config, pc, boxes, it, count, published, call>>

\* the iteration without `if (topScore < threshold) continue;'
PushBoxUnchecked(g) ==
    /\ InLoop
    /\ ~FLess(Confidence(cx, cy, b, g), _confidence)
    /\ \E top \in {Top(cx, cy, b, g)} :
          boxes' = Append(boxes, [label |-> labels[top.topClass],
                                  score |-> top.topScore,
                                  cy |-> cy, cx |-> cx, b |-> b])
    /\ Advance
    /\ Record("pushed", BoxCalls(cx, cy, b) \cup ClassCalls(cx, cy, b))
    /\ UNCHANGED <<config, pc, it, count, published, call>>

\* the iteration with boxes.insert(boxes.begin(), top_box)
PushBoxFront(g) ==
    /\ InLoop
    /\ ~FLess(Confidence(cx, cy, b, g), _confidence)
    /\ \E top \in {Top(cx, cy, b, g)} :
          /\ ~FLess(top.topScore, _confidence)
          /\ boxes' = << [label |-> labels[top.topClass],
                          score |-> top.topScore,
                          cy |-> cy, cx |-> cx, b |-> b] >> \o boxes
    /\ Advance
    /\ Record("pushed", BoxCalls(cx, cy, b) \cup ClassCalls(cx, cy, b))
    /\ UNCHANGED <<config, pc, it, count, published, call>>

\* boxes.push_back(top_box); the box's geometry is not modelled, its place
\* in the grid is kept as history
PushBox(g) ==
    /\ InLoop
    /\ ~FLess(Confidence(cx, cy, b, g), _confidence)
    /\ \E top \in {Top(cx, cy, b, g)} :
          /\ ~FLess(top.topScore, _confidence)
          /\ boxes' = Append(boxes, [label |-> labels[top.topClass],
                                     score |-> top.topScore,
                                     cy |-> cy, cx |-> cx, b |-> b])
    /\ Advance
    /\ Record("pushed", BoxCalls(cx, cy, b) \cup ClassCalls(cx, cy, b))
    /\ UNCHANGED <<config, pc, it, count, published, call>>

\* reading past the end of the vector may also end the process
OutOfBoundsCrash ==
    /\ InLoop
    /\ \/ ~InBounds(BoxCalls(cx, cy, b))
       \/ /\ ~InBounds(ClassCalls(cx, cy, b))
          /\ \E g \in Garbage : ~FLess(Confidence(cx, cy, b, g), _confidence)
    /\ pc' = "crashed"
    /\ UNCHANGED <<config, cy, cx, b, boxes, it, count, published, nReads,
                   last, seen, call>>

\* return boxes; and the start of the loop over them
ReturnBoxes ==
    /\ pc = "decode"
    /\ cy = ROW_COUNT
    /\ pc' = "publish"
    /\ it' = 1
    /\ count' = 0
    /\ UNCHANGED <<config, cy, cx, b, boxes, published, nReads, last, seen,
                   call>>

\* ------------------------------------------------------------------------
\* YoloProcessor::ProcessOutput
\* ------------------------------------------------------------------------

\* if (_fake) return;
ReturnFake ==
    /\ pc = "idle"
    /\ _fake
    /\ pc' = "done"
    /\ UNCHANGED <<config, cy, cx, b, boxes, it, count, published, nReads,
                   last, seen, call>>

\* auto boxes = GetRecognizedObjects(output, _confidence);
CallGetRecognizedObjects ==
    /\ pc = "idle"
    /\ ~_fake
    /\ pc' = "decode"
    /\ UNCHANGED <<config, cy, cx, b, boxes, it, count, published, nReads,
                   last, seen, call>>

\* the marker published with the position of its box as id, count unused
PublishMarkerBoxId ==
    /\ pc = "publish"
    /\ it <= Len(boxes)
    /\ boxes[it].label = _label
    /\ published' = Append(published,
                           [kind |-> "marker", id |-> it - 1, box |-> it])
    /\ count' = count + 1
    /\ it' = it + 1
    /\ UNCHANGED <<config, pc, cy, cx, b, boxes, nReads, last, seen, call>>

\* if (it->label == _label) { ... marker.id = count++; publish(marker); }
PublishMarker ==
    /\ pc = "publish"
    /\ it <= Len(boxes)
    /\ boxes[it].label = _label
    /\ published' = Append(published,
                           [kind |-> "marker", id |-> count, box |-> it])
    /\ count' = count + 1
    /\ it' = it + 1
    /\ UNCHANGED <<config, pc, cy, cx, b, boxes, nReads, last, seen, call>>

\* a box with another label: ++it
SkipBox ==
    /\ pc = "publish"
    /\ it <= Len(boxes)
    /\ boxes[it].label # _label
    /\ it' = it + 1
    /\ UNCHANGED <<config, pc, cy, cx, b, boxes, count, published, nReads,
                   last, seen, call>>

\* image_pub_->publish(*msg);
PublishImage ==
    /\ pc = "publish"
    /\ it > Len(boxes)
    /\ published' = Append(published,
                           [kind |-> "image", id |-> -1, box |-> 0])
    /\ pc' = "done"
    /\ UNCHANGED <<config, cy, cx, b, boxes, it, count, nReads, last, seen,
                   call>>

\* ------------------------------------------------------------------------
\* a direct call of GetOffset
\* ------------------------------------------------------------------------

\* int GetOffset(int x, int y, int channel): the arguments are not checked
\* and the call never fails
CallGetOffset(x, y, channel) ==
    /\ pc = "idle"
    /\ call' = [made |-> TRUE, x |-> x, y |-> y, channel |-> channel,
                index |-> GetOffset(x, y, channel), error |-> "none"]
    /\ UNCHANGED <<config, pc, cy, cx, b, boxes, it, count, published,
                   nReads, last, seen>>

\* ------------------------------------------------------------------------
\* specifications
\* ------------------------------------------------------------------------

\* 0.5f, 0x3F000000
Half == 126 * Hidden
\* the thresholds 0.0f (the pattern 0), 0.5f and 1.0f
Thresholds == {0, Half, One}

Tensors == {ConstTensor(0)} \cup {HashTensor(s) : s \in 1..NumSeeds}

NoCall == [made |-> FALSE, x |-> 0, y |-> 0, channel |-> 0, index |-> 0,
           error |-> "none"]

\* the state ProcessOutput is entered in
Start ==
    /\ pc = "idle"
    /\ cy = 0 /\ cx = 0 /\ b = 0
    /\ boxes = <<>>
    /\ it = 1 /\ count = 0
    /\ published = <<>>
    /\ nReads = 0
    /\ last = [cy |-> 0, cx |-> 0, b |-> 0, outcome |-> "none", calls |-> {}]
    /\ seen = {}
    /\ call = NoCall

\* a processor configured with one of the targets and thresholds, handed
\* one of the tensors
Setup(tensors, sizes, thresholds, targets, tr) ==
    /\ modelOutputs \in tensors
    /\ size \in sizes
    /\ _confidence \in thresholds
    /\ _label \in targets
    /\ _fake \in BOOLEAN
    /\ trace = tr
    /\ Start

Init == Setup(Tensors, {TensorLength}, Thresholds,
              {kDefaultLabel, labels[1]}, FALSE)

Next ==
    \/ ReturnFake
    \/ CallGetRecognizedObjects
    \/ \E g \in Garbage : SkipLowObjectness(g)
    \/ \E g \in Garbage : SkipLowScore(g)
    \/ \E g \in Garbage : PushBox(g)
    \/ ReturnBoxes
    \/ PublishMarker
    \/ SkipBox
    \/ PublishImage

\* ProcessOutput on a tensor of the length the network produces
Spec == Init /\ [][Next]_vars

\* ProcessOutput on a tensor one element short or one element long
InitSize == Setup({HashTensor(1)}, {TensorLength - 1, TensorLength + 1},
                  {0, Half}, {kDefaultLabel}, FALSE)

NextSize == Next \/ OutOfBoundsCrash

SpecSize == InitSize /\ [][NextSize]_vars

\* ProcessOutput with every GetOffset call of the decode recorded
InitReads == Setup({HashTensor(1)}, {TensorLength}, {0, Half},
                   {kDefaultLabel}, TRUE)

SpecReads == InitReads /\ [][Next]_vars

\* GetOffset called with arguments in and around its ranges
OffsetXY == -1..COL_COUNT
OffsetChannels == {-1, 0, 1, CHANNEL_COUNT - 1, CHANNEL_COUNT}

InitOffset == Setup({ConstTensor(0)}, {TensorLength}, {0},
                    {kDefaultLabel}, FALSE)

NextOffset ==
    \E x \in OffsetXY, y \in OffsetXY, channel \in OffsetChannels :
        CallGetOffset(x, y, channel)

SpecOffset == InitOffset /\ [][NextOffset]_vars

\* ------------------------------------------------------------------------
\* properties
\* ------------------------------------------------------------------------

\* an iteration of the innermost loop has run; the one recorded in last
Visited == last.outcome # "none"
\* that iteration pushed a box
Emitted == last.outcome = "pushed"
\* GetRecognizedObjects has just returned boxes
Returned == pc = "publish" /\ it = 1

\* objectness and top class/score of the anchor of the last iteration
LastConfidence == Confidence(last.cx, last.cy, last.b, 0)
LastTop == Top(last.cx, last.cy, last.b, 0)
LastAnchor == <<last.cy, last.cx, last.b>>

AnchorOf(box) == <<box.cy, box.cx, box.b>>
Anchors == (0..(ROW_COUNT - 1)) \X (0..(COL_COUNT - 1))
               \X (0..(BOXES_PER_CELL - 1))

\* a is before c in the scan: cy first, then cx, then the anchor
Before(a, c) ==
    \/ a[1] < c[1]
    \/ a[1] = c[1] /\ a[2] < c[2]
    \/ a[1] = c[1] /\ a[2] = c[2] /\ a[3] < c[3]

\* C1: an anchor is emitted exactly when its objectness is not below the
\* threshold and its top score is not below the threshold either; the
\* emitted anchor is the one appended to boxes; an anchor whose objectness
\* is below the threshold is skipped with only its five box values read,
\* none of its class logits
C1_EmittedIffBothChecksPass ==
    (pc = "decode" /\ Visited) =>
        /\ Emitted <=> (/\ ~FLess(LastConfidence, _confidence)
                        /\ ~FLess(LastTop.topScore, _confidence))
        /\ Emitted <=> (/\ boxes # <<>>
                        /\ AnchorOf(boxes[Len(boxes)]) = LastAnchor)
        /\ FLess(LastConfidence, _confidence) =>
               /\ last.outcome = "lowObjectness"
               /\ last.calls = BoxCalls(last.cx, last.cy, last.b)

\* an anchor skipped on its objectness, only its box values read, after
\* another one was emitted
C1_Witness ==
    /\ pc = "decode"
    /\ _confidence = Half
    /\ boxes # <<>>
    /\ last.outcome = "lowObjectness"
    /\ nReads > Cardinality(last.calls)

\* C2: with the threshold 1.0 no anchor is emitted, whatever the tensor
C2_ThresholdOneYieldsNothing == _confidence = One => boxes = <<>>

\* C3: with the threshold 0.0 the decode of a tensor of the right length
\* returns rows * cols * anchors detections, one for every anchor of every
\* cell
C3_ThresholdZeroEmitsEveryAnchor ==
    (Returned /\ _confidence = 0) =>
        /\ Len(boxes) = ROW_COUNT * COL_COUNT * BOXES_PER_CELL
        /\ {AnchorOf(boxes[k]) : k \in 1..Len(boxes)} = Anchors

\* the decode of a pseudo-random tensor returned at threshold 0.0, with
\* anchors whose score is NaN among the detections
C3_Witness ==
    /\ Returned
    /\ _confidence = 0
    /\ modelOutputs.hashed
    /\ \E k \in 1..Len(boxes) : IsNaN(boxes[k].score)

\* C4: the returned detections are in scan order: each one's (cy, cx,
\* anchor) is before the next one's (so, the order being transitive and
\* strict, that of every later one, and no anchor is there twice), whatever
\* the scores
C4_OutputInScanOrder ==
    Returned =>
        \A k \in 1..(Len(boxes) - 1) :
            Before(AnchorOf(boxes[k]), AnchorOf(boxes[k + 1]))

\* a returned sequence whose scores both rise and fall along it
C4_Witness ==
    /\ Returned
    /\ \E k \in 1..(Len(boxes) - 1) :
           FLess(boxes[k].score, boxes[k + 1].score)
    /\ \E k \in 1..(Len(boxes) - 1) :
           FLess(boxes[k + 1].score, boxes[k].score)

\* C5: a tensor whose length is not rows * cols * channels is refused
\* before any of its elements is indexed, and no detection is produced
C5_SizeMismatchRefused ==
    size # TensorLength => (nReads = 0 /\ boxes = <<>>)

\* x, y and channel are in the ranges of GetOffset
InRange(x, y, channel) ==
    /\ x \in 0..(COL_COUNT - 1)
    /\ y \in 0..(ROW_COUNT - 1)
    /\ channel \in 0..(CHANNEL_COUNT - 1)

\* some triple in range has the index i
Aliased(i) ==
    \E x \in 0..(COL_COUNT - 1), y \in 0..(ROW_COUNT - 1),
       channel \in 0..(CHANNEL_COUNT - 1) : GetOffset(x, y, channel) = i

\* C6: GetOffset called with an argument out of its range fails with
\* IndexOutOfRange; it returns no index, so none that a triple in range has
C6_OutOfRangeFails ==
    (call.made /\ ~InRange(call.x, call.y, call.channel)) =>
        /\ call.error = "IndexOutOfRange"
        /\ ~Aliased(call.index)

\* the softmax of the class logits of the anchor of the last iteration
LastClasses == Softmax(Classes(last.cx, last.cy, last.b, 0))

\* class i has the largest probability of the distribution
IsMaximal(classes, i) == \A j \in 1..Len(classes) : classes[j] <= classes[i]

\* the lowest class (from 1) among those of the largest probability
LowestMaximal(classes) ==
    CHOOSE i \in 1..Len(classes) :
        /\ IsMaximal(classes, i)
        /\ \A j \in 1..(i - 1) : ~IsMaximal(classes, j)

\* all class logits of the anchor of the last iteration are equal
LastLogitsEqual ==
    \A i \in 0..(CLASS_COUNT - 1) :
        Rd(GetOffset(last.cx, last.cy, i + ClassOffset(last.b)), 0)
            = Rd(GetOffset(last.cx, last.cy, ClassOffset(last.b)), 0)

\* C7: the label of an emitted detection is that of the lowest class among
\* those whose probability is the maximum of the distribution; it is
\* labels[0] (the first label) when all class logits are equal
C7_TopClassIsLowestMaximal ==
    (pc = "decode" /\ Emitted) =>
        /\ boxes[Len(boxes)].label = labels[LowestMaximal(LastClasses)]
        /\ LastLogitsEqual => boxes[Len(boxes)].label = labels[1]

\* an emitted detection of a pseudo-random tensor with two classes of the
\* largest probability, the lower of them not the first class
C7_Witness ==
    /\ pc = "decode"
    /\ Emitted
    /\ modelOutputs.hashed
    /\ LowestMaximal(LastClasses) > 1
    /\ \E j \in 1..CLASS_COUNT :
           /\ j # LowestMaximal(LastClasses)
           /\ IsMaximal(LastClasses, j)

\* topScore >= threshold, as the operator >= of float decides it
ScoreReaches(score, threshold) ==
    ~IsNaN(score) /\ ~IsNaN(threshold) /\ score >= threshold

\* C8: the top score of an anchor never exceeds its objectness, and the
\* anchor is emitted by the two checks exactly when a single check
\* topScore >= threshold would keep it
C8_TwoStageIsSinglePass ==
    (pc = "decode" /\ Visited) =>
        /\ ~FLess(LastConfidence, LastTop.topScore)
        /\ Emitted <=> ScoreReaches(LastTop.topScore, _confidence)

\* C9: every index a decode reads through GetOffset is an index of the
\* tensor, computed from a cell of the grid and a channel below
\* CHANNEL_COUNT, and no two of the (x, y, channel) read have the same index
\* (stated of the decode's states: nothing is read after it)
C9_ReadsInRangeAndDistinct ==
    pc = "decode" =>
        /\ \A r \in seen :
               /\ r[1] \in 0..(TensorLength - 1)
               /\ InRange(r[2], r[3], r[4])
        /\ Cardinality({r[1] : r \in seen}) = Cardinality(seen)

\* the first row of cells decoded at threshold 0.0: the box values and the
\* class logits of each of its anchors were read, each at its own index
C9_Witness ==
    /\ pc = "decode"
    /\ cy = 1 /\ cx = 0 /\ b = 0
    /\ _confidence = 0
    /\ Cardinality(seen) = COL_COUNT * CHANNEL_COUNT

\* the positions in boxes of the detections with the target label
Targets == SelectSeq([k \in 1..Len(boxes) |-> k],
                     LAMBDA k : boxes[k].label = _label)

\* C10: at the end of ProcessOutput outside fake mode, one marker was
\* published for every detection with the target label and for no other, in
\* the order of the detections and with the ids 0, 1, 2, ..., and after them
\* the image, once; in fake mode nothing was published
C10_MarkersThenImage ==
    pc = "done" =>
        IF _fake THEN published = <<>>
        ELSE published =
                 [k \in 1..Len(Targets) |->
                     [kind |-> "marker", id |-> k - 1, box |-> Targets[k]]]
                 \o << [kind |-> "image", id |-> -1, box |-> 0] >>

\* a call that published several markers, for detections that follow
\* detections with other labels
C10_Witness ==
    /\ pc = "done"
    /\ ~_fake
    /\ Len(Targets) >= 2
    /\ Targets[1] > 1
    /\ Targets[2] > Targets[1] + 1

====
